---------------------------- MODULE Spec2Model ----------------------------
(***************************************************************************)
(* Ingestion and retrieval pipeline of custom-ai-agent (NestJS backend):   *)
(* the chunker (rag/utils/chunker.util.ts), the sync orchestrator          *)
(* (SyncService), the vector index client (QdrantService) and the          *)
(* retrieval engine (RagService, ChatService.generateResponseWithRAG).     *)
(*                                                                         *)
(* Strings are kept run-length encoded: a text is a sequence of runs       *)
(* <<c, n>>, n >= 1 copies of the character c, adjacent runs having        *)
(* different characters.  "x"*1200 is << <<"x", 1200>> >>.  Offsets are    *)
(* 0-based as in JavaScript.                                               *)
(***************************************************************************)
EXTENDS Integers, Sequences, FiniteSets, TLC

VARIABLES
    chunker,     \* the chunkText invocation in progress (its locals)
    isSyncing,   \* SyncService.isSyncing
    calls,       \* the fullSync / incrementalSync invocations and their locals
    syncLogs,    \* rows of table sync_logs
    docs,        \* rows of table documents
    index,       \* points of the Qdrant collection
    now,         \* the clock read by new Date() and by the store's timestamps;
                 \* only the order of two stamps matters, so it is let advance
                 \* just before a write to table documents
    writes,      \* the number of writes table documents has seen
    rag          \* the generateResponseWithRAG invocation in progress

vars == <<chunker, isSyncing, calls, syncLogs, docs, index, now, writes, rag>>

-----------------------------------------------------------------------------
(* Strings *)

Min(a, b) == IF a < b THEN a ELSE b
Max(a, b) == IF a > b THEN a ELSE b

\* JavaScript's \s, restricted to the characters the model's texts use.
IsSpace(c) == c \in {" ", "\n"}

RECURSIVE StrLen(_)
StrLen(t) == IF t = <<>> THEN 0 ELSE t[1][2] + StrLen(Tail(t))

\* The run <<c, n>> appended to the text t.
AddRun(t, c, n) ==
    IF n <= 0 THEN t
    ELSE IF t # <<>> /\ t[Len(t)][1] = c
         THEN [t EXCEPT ![Len(t)] = <<c, t[Len(t)][2] + n>>]
         ELSE Append(t, <<c, n>>)

\* a + b: the last run of a and the first run of b are one run when they
\* have the same character.
Concat(a, b) ==
    IF b = <<>> THEN a ELSE AddRun(a, b[1][1], b[1][2]) \o Tail(b)

\* The text whose characters are the elements of chars.
RECURSIVE Str(_)
Str(chars) ==
    IF chars = <<>> THEN <<>>
    ELSE Concat(<< <<chars[1], 1>> >>, Str(Tail(chars)))

\* The characters of t, one element each.
RECURSIVE Expand(_)
Expand(t) ==
    IF t = <<>> THEN <<>>
    ELSE [i \in 1..t[1][2] |-> t[1][1]] \o Expand(Tail(t))

\* The characters ofs .. ofs+n-1 of t, for 0 <= ofs and ofs+n <= StrLen(t).
RECURSIVE Sub(_, _, _)
Sub(t, ofs, n) ==
    IF n <= 0 \/ t = <<>> THEN <<>>
    ELSE IF ofs >= t[1][2] THEN Sub(Tail(t), ofs - t[1][2], n)
    ELSE LET take == Min(t[1][2] - ofs, n)
         IN  Concat(<< <<t[1][1], take>> >>, Sub(Tail(t), 0, n - take))

\* String.prototype.slice(start, end): negative offsets count from the end.
Slice(t, start, end) ==
    LET len  == StrLen(t)
        from == IF start < 0 THEN Max(len + start, 0) ELSE Min(start, len)
        to   == IF end < 0 THEN Max(len + end, 0) ELSE Min(end, len)
    IN  Sub(t, from, to - from)

RECURSIVE TrimStart(_)
TrimStart(t) ==
    IF t # <<>> /\ IsSpace(t[1][1]) THEN TrimStart(Tail(t)) ELSE t

RECURSIVE TrimEnd(_)
TrimEnd(t) ==
    IF t # <<>> /\ IsSpace(t[Len(t)][1])
    THEN TrimEnd(SubSeq(t, 1, Len(t) - 1)) ELSE t

\* String.prototype.trim()
Trim(t) == TrimEnd(TrimStart(t))

-----------------------------------------------------------------------------
(* rag/utils/chunker.util.ts *)

DEFAULT_OPTIONS == [maxChunkSize |-> 1000, chunkOverlap |-> 200, minChunkSize |-> 100]

\* The number of consecutive characters of `chars` in the flat string s from
\* offset i (0-based) on.
RunFrom(s, i, chars) ==
    LET stop == CHOOSE k \in i..Len(s) :
                    /\ k = Len(s) \/ s[k + 1] \notin chars
                    /\ \A j \in i..(k - 1) : s[j + 1] \in chars
    IN  stop - i

\* The offset at which the run of characters of `chars` that holds offset i
\* begins.
RunStart(s, i, chars) ==
    CHOOSE k \in 0..i :
        /\ k = 0 \/ s[k] \notin chars
        /\ \A j \in k..i : s[j + 1] \in chars

\* The matches <<index, length>> that pattern.exec finds in s, scanning from
\* the left with the g flag (matches do not overlap).
Matches(s, pattern) ==
    CASE pattern = "paragraph" ->   \* /\n\n/g
           { <<i, 2>> : i \in { j \in 0..(Len(s) - 2) :
                 /\ s[j + 1] = "\n" /\ s[j + 2] = "\n"
                 /\ (j - RunStart(s, j, {"\n"})) % 2 = 0 } }
      [] pattern = "sentence" ->    \* /[.!?]\s+/g
           { <<i, 1 + RunFrom(s, i + 1, {" ", "\n"})>> : i \in { j \in 0..(Len(s) - 2) :
                 s[j + 1] \in {".", "!", "?"} /\ IsSpace(s[j + 2]) } }
      [] pattern = "clause" ->      \* /[,;:]\s+/g
           { <<i, 1 + RunFrom(s, i + 1, {" ", "\n"})>> : i \in { j \in 0..(Len(s) - 2) :
                 s[j + 1] \in {",", ";", ":"} /\ IsSpace(s[j + 2]) } }
      [] pattern = "word" ->        \* /\s+/g
           { <<i, RunFrom(s, i, {" ", "\n"})>> : i \in { j \in 0..(Len(s) - 1) :
                 IsSpace(s[j + 1]) /\ (j = 0 \/ ~IsSpace(s[j])) } }

breakPatterns == <<"paragraph", "sentence", "clause", "word">>

\* The last match of the pattern that starts in the last 40% of the range.
LastMatch(s, pattern) ==
    LET late == { m \in Matches(s, pattern) : 10 * m[1] > 6 * Len(s) }
    IN  IF late = {} THEN <<>>
        ELSE CHOOSE m \in late : \A o \in late : o[1] <= m[1]

RECURSIVE BreakFrom(_, _, _, _)
BreakFrom(s, start, maxEnd, p) ==
    IF p > Len(breakPatterns) THEN maxEnd
    ELSE LET lastMatch == LastMatch(s, breakPatterns[p])
         IN  IF lastMatch # <<>> THEN start + lastMatch[1] + lastMatch[2]
             ELSE BreakFrom(s, start, maxEnd, p + 1)

findBreakPoint(text, start, maxEnd) ==
    LET searchRange == Expand(Slice(text, start, maxEnd))
    IN  BreakFrom(searchRange, start, maxEnd, 1)

\* The end of the window that begins at startChar (chunkText, lines 49-57).
WindowEnd(text, opts, startChar) ==
    LET endChar == startChar + opts.maxChunkSize
    IN  IF endChar >= StrLen(text) THEN StrLen(text)
        ELSE findBreakPoint(text, startChar, endChar)

estimateTokens(text) == (StrLen(text) + 3) \div 4

\* needsChunking with a threshold of no token: every text is chunked.
needsChunking_EveryText(text) == estimateTokens(text) > 0

needsChunking(text) == estimateTokens(text) > 250

prepareTextForEmbedding(title, content) ==
    Concat(Concat(title, << <<"\n", 2>> >>), content)

\* Bound on the chunks one chunkText invocation is followed for.
MaxChunks == 4

NoChunker == [pc |-> "idle"]

\* chunkText(text, options) is entered (lines 28-46): the short text returns
\* its single chunk, the long one enters the sliding loop.
ChunkerCalled(text, opts, caller) ==
    [pc |-> "call", text |-> text, opts |-> opts, caller |-> caller,
     startChar |-> 0, chunkIndex |-> 0, chunks |-> <<>>]

-----------------------------------------------------------------------------
(* Bounds and sample data *)

MaxCalls  == 2    \* fullSync / incrementalSync invocations followed
MaxDocs   == 2    \* document ids handed out
MaxWrites == 2    \* writes to table documents

CallIds == 1..MaxCalls
DocIds  == 1..MaxDocs

\* A NULL column of a text type: no text (every run of a text has n >= 1).
Null == << <<"null", 0>> >>

Title    == << <<"T", 1>> >>
Faq      == << <<"f", 1>>, <<"a", 1>>, <<"q", 1>> >>
ShortContents == { << <<"x", 5>> >>, << <<"y", 3>> >> }
Contents      == ShortContents \cup { << <<"x", 1200>> >> }
Categories    == {Faq, Null}

NoTime == -1     \* a NULL timestamp column
NoDoc  == [exists |-> FALSE]

-----------------------------------------------------------------------------
(* database/entities/sync-log.entity.ts *)

STARTED   == "started"
COMPLETED == "completed"
FAILED    == "failed"
FULL        == "full"
INCREMENTAL == "incremental"

SyncStatus == {STARTED, COMPLETED, FAILED}
SyncType   == {FULL, INCREMENTAL}

\* syncLogRepository.create({type, status}): an entity that has no row yet.
NewSyncLog(type) ==
    [id |-> 0, type |-> type, status |-> STARTED, documentsSynced |-> 0,
     chunksCreated |-> 0, errorMessage |-> "NULL", startedAt |-> NoTime,
     completedAt |-> NoTime]

\* syncLogRepository.save(entity): insert the entity that has no id, update
\* the row of the one that has.
SavedLogs(logs, entity, time) ==
    IF entity.id = 0
    THEN Append(logs, [entity EXCEPT !.id = Len(logs) + 1, !.startedAt = time])
    ELSE [logs EXCEPT ![entity.id] = entity]

SavedEntity(logs, entity, time) ==
    IF entity.id = 0
    THEN [entity EXCEPT !.id = Len(logs) + 1, !.startedAt = time]
    ELSE entity

-----------------------------------------------------------------------------
(* SyncService (rag/sync.service.ts) *)

\* error.message of the error a collaborator rejects with.
DatabaseError  == "database unavailable"
QdrantError    == "qdrant unavailable"
EmbeddingError == "Cannot connect to Ollama. Please ensure Ollama is running."

NoResult ==
    [success |-> FALSE, type |-> "none", documentsSynced |-> 0,
     chunksCreated |-> 0, error |-> "NULL"]

\* The locals of one fullSync / incrementalSync invocation.  deleted and
\* upserted list the documents whose deleteByDocumentId / upsertPoints call
\* the invocation has seen return.
IdleCall ==
    [pc |-> "idle", type |-> "none", syncLog |-> NewSyncLog("none"),
     sinceDate |-> 0, documents |-> <<>>, di |-> 0, isChunk |-> FALSE,
     chunks |-> <<>>, ci |-> 0, points |-> <<>>, totalChunks |-> 0,
     caught |-> "none", errorMessage |-> "NULL", result |-> NoResult,
     deleted |-> <<>>,
     upserted |-> <<>>]

\* The invocation has ended: its result, or the exception it threw, is what
\* is left of it.
Ended(call, pc, result) ==
    [IdleCall EXCEPT !.pc = pc, !.type = call.type, !.result = result]

\* The synchronous code runs to completion: nothing else of the process runs
\* while chunkText is looping.
EventLoopFree == chunker.pc \in {"idle", "done"}

\* documentRepository.find(): the rows of table documents, in id order.
RECURSIVE FindFrom(_, _)
FindFrom(store, d) ==
    IF d > MaxDocs THEN <<>>
    ELSE IF store[d].exists
         THEN <<store[d]>> \o FindFrom(store, d + 1)
         ELSE FindFrom(store, d + 1)

Find(store) == FindFrom(store, 1)

\* documentRepository.find({ where: { updatedAt: MoreThan(sinceDate) } })
FindMoreThan(store, sinceDate) ==
    LET where(row) == row.updatedAt > sinceDate
    IN  SelectSeq(Find(store), where)

TextToEmbed(doc) == prepareTextForEmbedding(doc.title, doc.content)

\* syncDocument up to its first await (lines 611-621, 637).
BeginSyncDocument(call) ==
    IF needsChunking(TextToEmbed(call.documents[call.di]))
    THEN [call EXCEPT !.pc = "chunking", !.points = <<>>, !.isChunk = TRUE,
                      !.chunks = <<>>, !.ci = 0]
    ELSE [call EXCEPT !.pc = "embed", !.points = <<>>, !.isChunk = FALSE,
                      !.chunks = <<>>, !.ci = 0]

\* syncDocument once chunkText has returned (lines 617-621, 652).
AfterChunkText(call, chunks) ==
    IF chunks = <<>>
    THEN [call EXCEPT !.pc = "upsert", !.chunks = chunks]
    ELSE [call EXCEPT !.pc = "embed", !.chunks = chunks, !.ci = 1]

\* The document loop with the loop body of incrementalSync in fullSync too:
\* deleteByDocumentId is called for every document.
NextDocument_AlwaysDeletes(call, time) ==
    IF call.di <= Len(call.documents)
    THEN [call EXCEPT !.pc = "delete"]
    ELSE [call EXCEPT
            !.pc = "saveCompleted",
            !.syncLog = [@ EXCEPT !.status = COMPLETED,
                                  !.documentsSynced = Len(call.documents),
                                  !.chunksCreated = call.totalChunks,
                                  !.completedAt = time]]

\* The document loop with the loop body of fullSync in incrementalSync too:
\* syncDocument is called without deleteByDocumentId before it.
NextDocument_NeverDeletes(call, time) ==
    IF call.di <= Len(call.documents)
    THEN BeginSyncDocument(call)
    ELSE [call EXCEPT
            !.pc = "saveCompleted",
            !.syncLog = [@ EXCEPT !.status = COMPLETED,
                                  !.documentsSynced = Len(call.documents),
                                  !.chunksCreated = call.totalChunks,
                                  !.completedAt = time]]

\* The head of the document loop and the code after it (lines 469-479,
\* 559-571).
NextDocument(call, time) ==
    IF call.di <= Len(call.documents)
    THEN IF call.type = INCREMENTAL
         THEN [call EXCEPT !.pc = "delete"]
         ELSE BeginSyncDocument(call)
    ELSE [call EXCEPT
            !.pc = "saveCompleted",
            !.syncLog = [@ EXCEPT !.status = COMPLETED,
                                  !.documentsSynced = Len(call.documents),
                                  !.chunksCreated = call.totalChunks,
                                  !.completedAt = time]]

\* The catch block up to its await (lines 493-501, 585-593); `awaited` names
\* the call that rejected with the error caught.
Caught(call, awaited, errorMessage, time) ==
    [call EXCEPT
       !.pc = "saveFailed",
       !.caught = awaited,
       !.syncLog = [@ EXCEPT !.status = FAILED,
                             !.errorMessage = errorMessage,
                             !.completedAt = time],
       !.errorMessage = errorMessage]

\* The invocation c goes on as nc; a syncDocument that needs chunking calls
\* chunkText(textToEmbed) with the default options.
Resume(c, nc) ==
    /\ calls' = [calls EXCEPT ![c] = nc]
    /\ chunker' = IF nc.pc = "chunking"
                  THEN ChunkerCalled(TextToEmbed(nc.documents[nc.di]),
                                     DEFAULT_OPTIONS, c)
                  ELSE chunker

\* SyncEnter without the reentrancy check of lines 437-447: every invocation
\* sets the flag and goes on.
SyncEnter_Unguarded(c, type) ==
    /\ EventLoopFree
    /\ calls[c].pc = "idle"
    /\ \A j \in 1..(c - 1) : calls[j].pc # "idle"
    /\ isSyncing' = TRUE
    /\ calls' = [calls EXCEPT ![c] =
          [@ EXCEPT !.pc = "saveStarted", !.type = type,
                    !.syncLog = NewSyncLog(type)]]
    /\ UNCHANGED <<chunker, syncLogs, docs, index, now, writes, rag>>

\* SyncEnter with the reentrancy check inside the try block: the invocation
\* turned away leaves through the finally block, which clears the flag.
SyncEnter_RejectionClearsFlag(c, type) ==
    /\ EventLoopFree
    /\ calls[c].pc = "idle"
    /\ \A j \in 1..(c - 1) : calls[j].pc # "idle"
    /\ IF isSyncing
       THEN /\ calls' = [calls EXCEPT ![c] =
                  Ended([@ EXCEPT !.type = type], "returned",
                        [success |-> FALSE, type |-> type,
                         documentsSynced |-> 0, chunksCreated |-> 0,
                         error |-> "Sync already in progress"])]
            /\ isSyncing' = FALSE
       ELSE /\ isSyncing' = TRUE
            /\ calls' = [calls EXCEPT ![c] =
                  [@ EXCEPT !.pc = "saveStarted", !.type = type,
                            !.syncLog = NewSyncLog(type)]]
    /\ UNCHANGED <<chunker, syncLogs, docs, index, now, writes, rag>>

\* Lines 437-457 and 520-540: the reentrancy check, the flag, the STARTED
\* entity, up to the await of its save.
SyncEnter(c, type) ==
    /\ EventLoopFree
    /\ calls[c].pc = "idle"
    /\ \A j \in 1..(c - 1) : calls[j].pc # "idle"
    /\ IF isSyncing
       THEN /\ calls' = [calls EXCEPT ![c] =
                  Ended([@ EXCEPT !.type = type], "returned",
                        [success |-> FALSE, type |-> type,
                         documentsSynced |-> 0, chunksCreated |-> 0,
                         error |-> "Sync already in progress"])]
            /\ UNCHANGED isSyncing
       ELSE /\ isSyncing' = TRUE
            /\ calls' = [calls EXCEPT ![c] =
                  [@ EXCEPT !.pc = "saveStarted", !.type = type,
                            !.syncLog = NewSyncLog(type)]]
    /\ UNCHANGED <<chunker, syncLogs, docs, index, now, writes, rag>>

fullSync(c) == SyncEnter(c, FULL)

incrementalSync(c) == SyncEnter(c, INCREMENTAL)

\* await this.syncLogRepository.save(syncLog) of the STARTED entity (lines
\* 457, 540): outside the try block, so its rejection leaves the method.
SaveStarted(c) ==
    /\ EventLoopFree
    /\ calls[c].pc = "saveStarted"
    /\ \E ok \in BOOLEAN :
         IF ok
         THEN /\ syncLogs' = SavedLogs(syncLogs, calls[c].syncLog, now)
              /\ calls' = [calls EXCEPT ![c] =
                    [@ EXCEPT !.syncLog = SavedEntity(syncLogs, @, now),
                              !.pc = IF calls[c].type = FULL
                                     THEN "find" ELSE "getLastSync"]]
         ELSE /\ calls' = [calls EXCEPT ![c] = Ended(@, "thrown", NoResult)]
              /\ UNCHANGED syncLogs
    /\ UNCHANGED <<chunker, isSyncing, docs, index, now, writes, rag>>

\* getLastSuccessfulSync without its where clause: the row with the largest
\* completedAt, whatever its status.
LastSuccessfulSync_AnyStatus(logs) ==
    IF logs = <<>> THEN NewSyncLog("none")
    ELSE logs[CHOOSE i \in 1..Len(logs) :
                \A j \in 1..Len(logs) : logs[j].completedAt <= logs[i].completedAt]

\* getLastSuccessfulSync (lines 659-664): findOne({ where: { status:
\* COMPLETED }, order: { completedAt: 'DESC' } }); the row with id 0 is null.
LastSuccessfulSync(logs) ==
    LET completed == { i \in 1..Len(logs) : logs[i].status = COMPLETED }
    IN  IF completed = {} THEN NewSyncLog("none")
        ELSE logs[CHOOSE i \in completed :
                    \A j \in completed : logs[j].completedAt <= logs[i].completedAt]

\* await this.getLastSuccessfulSync() and lines 545-550.
getLastSuccessfulSync(c) ==
    /\ EventLoopFree
    /\ calls[c].pc = "getLastSync"
    /\ \E ok \in BOOLEAN :
         LET lastSync  == LastSuccessfulSync(syncLogs)
             sinceDate == IF lastSync.id # 0 /\ lastSync.completedAt # NoTime
                          THEN lastSync.completedAt ELSE 0
         IN  calls' = [calls EXCEPT ![c] =
                 IF ok THEN [@ EXCEPT !.sinceDate = sinceDate, !.pc = "find"]
                 ELSE Caught(@, "getLastSuccessfulSync", DatabaseError, now)]
    /\ UNCHANGED <<chunker, isSyncing, syncLogs, docs, index, now, writes, rag>>

\* await this.documentRepository.find(...) (lines 463, 550-552) and the code
\* that follows it up to the next await.
FindDocuments(c) ==
    /\ EventLoopFree
    /\ calls[c].pc = "find"
    /\ \E ok \in BOOLEAN :
         LET documents == IF calls[c].type = FULL THEN Find(docs)
                          ELSE FindMoreThan(docs, calls[c].sinceDate)
         IN  Resume(c, IF ok
                       THEN NextDocument([calls[c] EXCEPT !.documents = documents,
                                                          !.di = 1,
                                                          !.totalChunks = 0], now)
                       ELSE Caught(calls[c], "find", DatabaseError, now))
    /\ UNCHANGED <<isSyncing, syncLogs, docs, index, now, writes, rag>>

-----------------------------------------------------------------------------
(* QdrantService (qdrant/qdrant.service.ts) *)

\* client.upsert: a point replaces the point that has its id.
Upsert(points, new) ==
    LET ids == { new[i].id : i \in 1..Len(new) }
    IN  { p \in points : p.id \notin ids } \cup { new[i] : i \in 1..Len(new) }

\* client.delete without the filter: every point of the collection goes.
DeleteByDocumentId_NoFilter(points, documentId) == {}

\* client.delete with the filter document_id = documentId (lines 131-148).
DeleteByDocumentId(points, documentId) ==
    { p \in points : p.payload.document_id # documentId }

-----------------------------------------------------------------------------

\* await this.qdrantService.deleteByDocumentId(doc.id) (line 561), then
\* syncDocument up to its first await.
deleteByDocumentId(c) ==
    /\ EventLoopFree
    /\ calls[c].pc = "delete"
    /\ \E ok \in BOOLEAN :
         LET doc == calls[c].documents[calls[c].di]
         IN  IF ok
             THEN /\ index' = DeleteByDocumentId(index, doc.id)
                  /\ Resume(c, BeginSyncDocument(
                                 [calls[c] EXCEPT !.deleted = Append(@, doc.id)]))
             ELSE /\ UNCHANGED index
                  /\ Resume(c, Caught(calls[c], "deleteByDocumentId", QdrantError, now))
    /\ UNCHANGED <<isSyncing, syncLogs, docs, now, writes, rag>>

\* The point syncDocument builds from an embedding (lines 622-633, 638-649).
\* The vector of a text is written as the text.
ChunkPoint(doc, chunk) ==
    [id |-> <<doc.id, "_chunk_", chunk.index>>, vector |-> chunk.text,
     payload |-> [document_id |-> doc.id, title |-> doc.title,
                  category |-> doc.category, chunk_index |-> chunk.index,
                  chunk_text |-> chunk.text, is_chunk |-> TRUE]]

DocumentPoint(doc) ==
    [id |-> <<doc.id>>, vector |-> TextToEmbed(doc),
     payload |-> [document_id |-> doc.id, title |-> doc.title,
                  category |-> doc.category, chunk_index |-> 0,
                  chunk_text |-> TextToEmbed(doc), is_chunk |-> FALSE]]

\* syncDocument submitting each point as soon as its embedding is there,
\* instead of one upsertPoints call after the loop.
generateEmbedding_UpsertsEachPoint(c) ==
    /\ EventLoopFree
    /\ calls[c].pc = "embed"
    /\ \E ok \in BOOLEAN :
         LET call == calls[c]
             doc  == call.documents[call.di]
             point == IF call.isChunk THEN ChunkPoint(doc, call.chunks[call.ci])
                      ELSE DocumentPoint(doc)
         IN  /\ calls' = [calls EXCEPT ![c] =
                   IF ~ok THEN Caught(call, "generateEmbedding", EmbeddingError, now)
                   ELSE IF call.isChunk /\ call.ci < Len(call.chunks)
                        THEN [call EXCEPT !.points = Append(@, point), !.ci = @ + 1]
                        ELSE [call EXCEPT !.points = Append(@, point), !.pc = "upsert"]]
             /\ index' = IF ok THEN Upsert(index, <<point>>) ELSE index
    /\ UNCHANGED <<chunker, isSyncing, syncLogs, docs, now, writes, rag>>

\* await this.embeddingService.generateEmbedding(...) (lines 621, 637) and the
\* push of the point.
generateEmbedding(c) ==
    /\ EventLoopFree
    /\ calls[c].pc = "embed"
    /\ \E ok \in BOOLEAN :
         LET call == calls[c]
             doc  == call.documents[call.di]
             point == IF call.isChunk THEN ChunkPoint(doc, call.chunks[call.ci])
                      ELSE DocumentPoint(doc)
         IN  calls' = [calls EXCEPT ![c] =
                 IF ~ok THEN Caught(call, "generateEmbedding", EmbeddingError, now)
                 ELSE IF call.isChunk /\ call.ci < Len(call.chunks)
                      THEN [call EXCEPT !.points = Append(@, point), !.ci = @ + 1]
                      ELSE [call EXCEPT !.points = Append(@, point), !.pc = "upsert"]]
    /\ UNCHANGED <<chunker, isSyncing, syncLogs, docs, index, now, writes, rag>>

\* await this.qdrantService.upsertPoints(points) (line 652; upsertPoints
\* returns at once for no points, lines 66-67), return points.length, and the
\* loop of the caller up to its next await.
upsertPoints(c) ==
    /\ EventLoopFree
    /\ calls[c].pc = "upsert"
    /\ \E ok \in BOOLEAN :
         LET call == calls[c]
             doc  == call.documents[call.di]
         IN  /\ ok \/ call.points # <<>>
             /\ IF ok
                THEN /\ index' = IF call.points = <<>> THEN index
                                 ELSE Upsert(index, call.points)
                     /\ Resume(c, NextDocument(
                           [call EXCEPT !.upserted = Append(@, doc.id),
                                        !.totalChunks = @ + Len(call.points),
                                        !.di = @ + 1], now))
                ELSE /\ UNCHANGED index
                     /\ Resume(c, Caught(call, "upsertPoints", QdrantError, now))
    /\ UNCHANGED <<isSyncing, syncLogs, docs, now, writes, rag>>

\* await this.syncLogRepository.save(syncLog) of the COMPLETED entity, the
\* return of the result and the finally block (lines 479-492, 511-513).
SaveCompleted(c) ==
    /\ EventLoopFree
    /\ calls[c].pc = "saveCompleted"
    /\ \E ok \in BOOLEAN :
         LET call == calls[c]
         IN  IF ok
             THEN /\ syncLogs' = SavedLogs(syncLogs, call.syncLog, now)
                  /\ isSyncing' = FALSE
                  /\ calls' = [calls EXCEPT ![c] =
                       Ended(call, "returned",
                             [success |-> TRUE, type |-> call.type,
                              documentsSynced |-> Len(call.documents),
                              chunksCreated |-> call.totalChunks,
                              error |-> "NULL"])]
             ELSE /\ calls' = [calls EXCEPT ![c] =
                                  Caught(call, "save", DatabaseError, now)]
                  /\ UNCHANGED <<syncLogs, isSyncing>>
    /\ UNCHANGED <<chunker, docs, index, now, writes, rag>>

\* The catch block with a rollback: the points of the documents ingested
\* before the failure are taken out of the index.
SaveFailed_RollsBack(c) ==
    /\ EventLoopFree
    /\ calls[c].pc = "saveFailed"
    /\ \E ok \in BOOLEAN :
         LET call == calls[c]
         IN  IF ok
             THEN /\ syncLogs' = SavedLogs(syncLogs, call.syncLog, now)
                  /\ calls' = [calls EXCEPT ![c] =
                       Ended(call, "returned",
                             [success |-> FALSE, type |-> call.type,
                              documentsSynced |-> 0, chunksCreated |-> 0,
                              error |-> call.errorMessage])]
             ELSE /\ calls' = [calls EXCEPT ![c] = Ended(call, "thrown", NoResult)]
                  /\ UNCHANGED syncLogs
    /\ isSyncing' = FALSE
    /\ index' = { p \in index :
                    \A k \in 1..Len(calls[c].upserted) :
                       p.payload.document_id # calls[c].upserted[k] }
    /\ UNCHANGED <<chunker, docs, now, writes, rag>>

\* await this.syncLogRepository.save(syncLog) of the FAILED entity in the
\* catch block, the return of the result and the finally block (lines
\* 501-513): a rejection here leaves the method through the finally block.
SaveFailed(c) ==
    /\ EventLoopFree
    /\ calls[c].pc = "saveFailed"
    /\ \E ok \in BOOLEAN :
         LET call == calls[c]
         IN  IF ok
             THEN /\ syncLogs' = SavedLogs(syncLogs, call.syncLog, now)
                  /\ calls' = [calls EXCEPT ![c] =
                       Ended(call, "returned",
                             [success |-> FALSE, type |-> call.type,
                              documentsSynced |-> 0, chunksCreated |-> 0,
                              error |-> call.errorMessage])]
             ELSE /\ calls' = [calls EXCEPT ![c] = Ended(call, "thrown", NoResult)]
                  /\ UNCHANGED syncLogs
    /\ isSyncing' = FALSE
    /\ UNCHANGED <<chunker, docs, index, now, writes, rag>>

-----------------------------------------------------------------------------
(* chunkText as it runs *)

\* chunkText returns: to syncDocument, which goes on to its next await, when
\* a sync invocation called it.
ChunkerStep(next) ==
    IF next.pc = "done" /\ next.caller \in CallIds
    THEN /\ chunker' = NoChunker
         /\ calls' = [calls EXCEPT ![next.caller] = AfterChunkText(@, next.chunks)]
    ELSE /\ chunker' = next
         /\ UNCHANGED calls

\* chunkText with the size test of lines 62-70 applied to the short text too.
chunkTextEnter_AppliesMinChunkSize ==
    /\ chunker.pc = "call"
    /\ ChunkerStep(
         IF StrLen(chunker.text) <= chunker.opts.maxChunkSize
         THEN [chunker EXCEPT
                 !.pc = "done",
                 !.chunks = IF StrLen(Trim(chunker.text)) >= chunker.opts.minChunkSize
                            THEN << [text |-> Trim(chunker.text), index |-> 0,
                                     startChar |-> 0,
                                     endChar |-> StrLen(chunker.text)] >>
                            ELSE <<>>]
         ELSE [chunker EXCEPT !.pc = "loop"])
    /\ UNCHANGED <<isSyncing, syncLogs, docs, index, now, writes, rag>>

\* Lines 28-46: the short text returns its single chunk, the long one enters
\* the sliding loop.
chunkTextEnter ==
    /\ chunker.pc = "call"
    /\ ChunkerStep(
         IF StrLen(chunker.text) <= chunker.opts.maxChunkSize
         THEN [chunker EXCEPT
                 !.pc = "done",
                 !.chunks = << [text |-> Trim(chunker.text), index |-> 0,
                                startChar |-> 0, endChar |-> StrLen(chunker.text)] >>]
         ELSE [chunker EXCEPT !.pc = "loop"])
    /\ UNCHANGED <<isSyncing, syncLogs, docs, index, now, writes, rag>>

\* The loop left as soon as a window reaches the end of the text.
LoopBreaks_AtEnd(text, opts, endChar) == endChar >= StrLen(text)

\* Whether the loop is left after the window that ends at endChar (lines
\* 73-78).
LoopBreaks(text, opts, endChar) ==
    endChar - opts.chunkOverlap >= StrLen(text) - opts.minChunkSize

\* The loop body without the size test of line 62: every window is pushed.
chunkTextLoop_EmitsEveryWindow ==
    /\ chunker.pc = "loop"
    /\ Len(chunker.chunks) < MaxChunks
    /\ LET text      == chunker.text
           opts      == chunker.opts
           startChar == chunker.startChar
           endChar   == WindowEnd(text, opts, startChar)
           chunkText == Trim(Slice(text, startChar, endChar))
       IN  ChunkerStep(
             IF ~(startChar < StrLen(text))
             THEN [chunker EXCEPT !.pc = "done"]
             ELSE [chunker EXCEPT
                     !.chunks = Append(@, [text |-> chunkText,
                                           index |-> chunker.chunkIndex,
                                           startChar |-> startChar,
                                           endChar |-> endChar]),
                     !.chunkIndex = @ + 1,
                     !.startChar = endChar - opts.chunkOverlap,
                     !.pc = IF LoopBreaks(text, opts, endChar)
                            THEN "done" ELSE "loop"])
    /\ UNCHANGED <<isSyncing, syncLogs, docs, index, now, writes, rag>>

\* The loop body with chunkIndex counting the windows, the skipped ones too.
chunkTextLoop_IndexPerWindow ==
    /\ chunker.pc = "loop"
    /\ Len(chunker.chunks) < MaxChunks
    /\ LET text      == chunker.text
           opts      == chunker.opts
           startChar == chunker.startChar
           endChar   == WindowEnd(text, opts, startChar)
           chunkText == Trim(Slice(text, startChar, endChar))
           emit      == StrLen(chunkText) >= opts.minChunkSize
       IN  ChunkerStep(
             IF ~(startChar < StrLen(text))
             THEN [chunker EXCEPT !.pc = "done"]
             ELSE [chunker EXCEPT
                     !.chunks = IF emit
                                THEN Append(@, [text |-> chunkText,
                                                index |-> chunker.chunkIndex,
                                                startChar |-> startChar,
                                                endChar |-> endChar])
                                ELSE @,
                     !.chunkIndex = @ + 1,
                     !.startChar = endChar - opts.chunkOverlap,
                     !.pc = IF LoopBreaks(text, opts, endChar)
                            THEN "done" ELSE "loop"])
    /\ UNCHANGED <<isSyncing, syncLogs, docs, index, now, writes, rag>>

\* One evaluation of the while condition and, when it holds, of the loop body
\* (lines 48-79).
chunkTextLoop ==
    /\ chunker.pc = "loop"
    /\ Len(chunker.chunks) < MaxChunks
    /\ LET text      == chunker.text
           opts      == chunker.opts
           startChar == chunker.startChar
           endChar   == WindowEnd(text, opts, startChar)
           chunkText == Trim(Slice(text, startChar, endChar))
           emit      == StrLen(chunkText) >= opts.minChunkSize
       IN  ChunkerStep(
             IF ~(startChar < StrLen(text))
             THEN [chunker EXCEPT !.pc = "done"]
             ELSE [chunker EXCEPT
                     !.chunks = IF emit
                                THEN Append(@, [text |-> chunkText,
                                                index |-> chunker.chunkIndex,
                                                startChar |-> startChar,
                                                endChar |-> endChar])
                                ELSE @,
                     !.chunkIndex = IF emit THEN @ + 1 ELSE @,
                     !.startChar = endChar - opts.chunkOverlap,
                     !.pc = IF LoopBreaks(text, opts, endChar)
                            THEN "done" ELSE "loop"])
    /\ UNCHANGED <<isSyncing, syncLogs, docs, index, now, writes, rag>>

-----------------------------------------------------------------------------
(* Table documents (database/entities/document.entity.ts) and its writers *)

Gone == [exists |-> FALSE, gone |-> TRUE]

\* documentRepository.save of a new document (SeedService.seed): the store
\* hands out a fresh id and stamps updatedAt.
CreateDocument(d, content, category, time) ==
    /\ writes < MaxWrites
    /\ time \in {now, now + 1}
    /\ docs[d] = NoDoc
    /\ \A e \in 1..(d - 1) : docs[e] # NoDoc
    /\ docs' = [docs EXCEPT ![d] =
                  [exists |-> TRUE, id |-> d, title |-> Title, content |-> content,
                   category |-> category, updatedAt |-> time]]
    /\ now' = time
    /\ writes' = writes + 1
    /\ UNCHANGED <<chunker, isSyncing, calls, syncLogs, index, rag>>

\* A write to a row of table documents: @UpdateDateColumn stamps updatedAt.
UpdateDocument(d, content, category, time) ==
    /\ writes < MaxWrites
    /\ time \in {now, now + 1}
    /\ docs[d].exists
    /\ docs' = [docs EXCEPT ![d] =
                  [@ EXCEPT !.content = content, !.category = category,
                            !.updatedAt = time]]
    /\ now' = time
    /\ writes' = writes + 1
    /\ UNCHANGED <<chunker, isSyncing, calls, syncLogs, index, rag>>

\* documentRepository.clear() (SeedService.forceSeed): every row is removed.
ClearDocuments ==
    /\ writes < MaxWrites
    /\ \E d \in DocIds : docs[d].exists
    /\ docs' = [d \in DocIds |-> IF docs[d] = NoDoc THEN NoDoc ELSE Gone]
    /\ writes' = writes + 1
    /\ UNCHANGED <<chunker, isSyncing, calls, syncLogs, index, now, rag>>


-----------------------------------------------------------------------------
(* RagService (rag/rag.service.ts), ChatService.generateResponseWithRAG and  *)
(* SyncController.search                                                     *)

\* The first sentence of each system prompt stands for the prompt.
DEFAULT_SYSTEM_PROMPT ==
    "You are a personal AI assistant for a website. Your role is to help visitors learn about the website."
DEFAULT_RAG_SYSTEM_PROMPT ==
    "You are a personal AI assistant for a website. Your role is to help visitors learn about the website using the provided context."

\* The texts of seq, one after the other.
RECURSIVE Cat(_)
Cat(seq) == IF seq = <<>> THEN <<>> ELSE Concat(seq[1], Cat(Tail(seq)))

\* Array.prototype.join
RECURSIVE Join(_, _)
Join(seq, separator) ==
    IF seq = <<>> THEN <<>>
    ELSE IF Len(seq) = 1 THEN seq[1]
    ELSE Cat(<<seq[1], separator, Join(Tail(seq), separator)>>)

\* A text column or an optional argument read as a condition: null, undefined
\* and '' are falsy.
Truthy(t) == t # Null /\ t # <<>>

Digit(n) == <<"0", "1", "2", "3", "4", "5", "6", "7", "8", "9">>[n + 1]

\* client.search without the filter: the `limit` best points of the
\* collection, whatever their category.
SearchResults_NoFilter(points, limit, category) ==
    LET n == Min(limit, Cardinality(points))
    IN  { [i \in 1..n |-> [id |-> h[i].id, score |-> n - i + 1,
                           payload |-> h[i].payload]] :
            h \in { g \in [1..n -> points] :
                      \A i, j \in 1..n : i # j => g[i] # g[j] } }

\* client.search (qdrant.service.ts, lines 87-109): the `limit` best points
\* that pass the filter, best first.  The scores are the index's business:
\* every order of every choice of points is a possible answer.
SearchResults(points, limit, category) ==
    LET matching == IF Truthy(category)
                    THEN { p \in points : p.payload.category = category }
                    ELSE points
        n == Min(limit, Cardinality(matching))
    IN  { [i \in 1..n |-> [id |-> h[i].id, score |-> n - i + 1,
                           payload |-> h[i].payload]] :
            h \in { g \in [1..n -> matching] :
                      \A i, j \in 1..n : i # j => g[i] # g[j] } }

\* The join of lines 61-91 with the contexts in the reverse of the order of
\* the hits.
BuildContexts_Reversed(searchResults, store) ==
    LET found(r) == store[r.payload.document_id].exists
        kept     == SelectSeq(searchResults, found)
    IN  [i \in 1..Len(kept) |->
           LET result == kept[Len(kept) + 1 - i]
               doc    == store[result.payload.document_id]
           IN  [documentId |-> doc.id,
                title      |-> doc.title,
                content    |-> IF Truthy(result.payload.chunk_text)
                               THEN result.payload.chunk_text ELSE doc.content,
                category   |-> IF Truthy(doc.category) THEN doc.category ELSE Null,
                score      |-> result.score,
                chunkIndex |-> result.payload.chunk_index]]

\* searchRelevantContext, lines 61-91: the hits joined with the rows fetched.
BuildContexts(searchResults, store) ==
    LET found(r) == store[r.payload.document_id].exists
        kept     == SelectSeq(searchResults, found)
    IN  [i \in 1..Len(kept) |->
           LET result == kept[i]
               doc    == store[result.payload.document_id]
           IN  [documentId |-> doc.id,
                title      |-> doc.title,
                content    |-> IF Truthy(result.payload.chunk_text)
                               THEN result.payload.chunk_text ELSE doc.content,
                category   |-> IF Truthy(doc.category) THEN doc.category ELSE Null,
                score      |-> result.score,
                chunkIndex |-> result.payload.chunk_index]]

\* formatContextForPrompt numbering the contexts with the array index, from 0.
formatContextForPrompt_FromZero(contexts) ==
    IF Len(contexts) = 0 THEN <<>>
    ELSE LET number(i) == Cat(<<Str(<<"[">>), Str(<<Digit(i - 1)>>), Str(<<"]", " ">>)>>)
             header(i) ==
                 IF Truthy(contexts[i].category)
                 THEN Cat(<<number(i), contexts[i].title, Str(<<" ", "(">>),
                            contexts[i].category, Str(<<")">>)>>)
                 ELSE Cat(<<number(i), contexts[i].title>>)
             formattedContexts ==
                 [i \in 1..Len(contexts) |->
                    Cat(<<header(i), Str(<<"\n">>), contexts[i].content>>)]
         IN  Join(formattedContexts, Str(<<"\n", "\n", "-", "-", "-", "\n", "\n">>))

formatContextForPrompt(contexts) ==
    IF Len(contexts) = 0 THEN <<>>
    ELSE LET number(i) == Cat(<<Str(<<"[">>), Str(<<Digit(i)>>), Str(<<"]", " ">>)>>)
             header(i) ==
                 IF Truthy(contexts[i].category)
                 THEN Cat(<<number(i), contexts[i].title, Str(<<" ", "(">>),
                            contexts[i].category, Str(<<")">>)>>)
                 ELSE Cat(<<number(i), contexts[i].title>>)
             formattedContexts ==
                 [i \in 1..Len(contexts) |->
                    Cat(<<header(i), Str(<<"\n">>), contexts[i].content>>)]
         IN  Join(formattedContexts, Str(<<"\n", "\n", "-", "-", "-", "\n", "\n">>))

\* getAugmentedPrompt without the test of lines 126-131: the prompt is
\* augmented whatever the search returned.
getAugmentedPrompt_AlwaysAugments(userMessage, contexts) ==
    [prompt |->
        Cat(<<Str(<<"<", "c", "o", "n", "t", "e", "x", "t", ">", "\n">>),
              formatContextForPrompt(contexts),
              Str(<<"\n", "<", "/", "c", "o", "n", "t", "e", "x", "t", ">",
                    "\n", "\n", "Q", "u", "e", "s", "t", "i", "o", "n",
                    ":", " ">>),
              userMessage>>),
     contexts |-> contexts]

\* getAugmentedPrompt once searchRelevantContext has returned (lines 124-142).
getAugmentedPrompt(userMessage, contexts) ==
    LET contextText == formatContextForPrompt(contexts)
    IN  IF contextText = <<>>
        THEN [prompt |-> userMessage, contexts |-> <<>>]
        ELSE [prompt |->
                Cat(<<Str(<<"<", "c", "o", "n", "t", "e", "x", "t", ">", "\n">>),
                      contextText,
                      Str(<<"\n", "<", "/", "c", "o", "n", "t", "e", "x", "t", ">",
                            "\n", "\n", "Q", "u", "e", "s", "t", "i", "o", "n",
                            ":", " ">>),
                      userMessage>>),
              contexts |-> contexts]

buildPromptWithHistory(currentMessage, history) ==
    IF Len(history) = 0 THEN currentMessage
    ELSE LET line(msg) ==
                 Cat(<<IF msg.role = "user"
                       THEN Str(<<"U", "s", "e", "r">>)
                       ELSE Str(<<"A", "s", "s", "i", "s", "t", "a", "n", "t">>),
                       Str(<<":", " ">>), msg.content>>)
             historyText == Join([i \in 1..Len(history) |-> line(history[i])],
                                 Str(<<"\n">>))
         IN  Cat(<<Str(<<"P", "r", "e", "v", "i", "o", "u", "s", " ", "c", "o",
                         "n", "v", "e", "r", "s", "a", "t", "i", "o", "n", ":",
                         "\n">>),
                   historyText,
                   Str(<<"\n", "\n", "C", "u", "r", "r", "e", "n", "t", " ", "q",
                         "u", "e", "s", "t", "i", "o", "n", "/", "r", "e", "q",
                         "u", "e", "s", "t", ":", " ">>),
                   currentMessage>>)

Queries   == { Str(<<"q">>) }
Histories == { <<>>,
               << [role |-> "user", content |-> Str(<<"h">>)],
                  [role |-> "assistant", content |-> Str(<<"a">>)] >> }
Limits    == {1, 3}

NoRequest == [prompt |-> Null, system |-> "NULL"]

\* The locals of one generateResponseWithRAG or SyncController.search
\* invocation.  failed names the await of searchRelevantContext that rejected,
\* searchThrew tells whether searchRelevantContext ended by throwing.
NoRag ==
    [pc |-> "idle", entry |-> "none", query |-> <<>>, limit |-> 0,
     category |-> Null, history |-> <<>>, searchResults |-> <<>>,
     failed |-> "none", searchThrew |-> FALSE, contexts |-> <<>>,
     contextText |-> <<>>,
     augmented |-> [prompt |-> Null, contexts |-> <<>>],
     request |-> NoRequest]

\* searchRelevantContext has returned `contexts` to its caller, which runs on
\* to its next await: SyncController.search returns (part_003, lines 59-63),
\* generateResponseWithRAG picks the prompts and issues the generation request
\* (lines 261-274, 287-298).
SearchReturned(r, contexts) ==
    IF r.entry = "search"
    THEN [r EXCEPT !.pc = "returned", !.contexts = contexts]
    ELSE LET ragResult   == getAugmentedPrompt(r.query, contexts)
             ragContexts == ragResult.contexts
         IN  [r EXCEPT
                !.pc = "generate",
                !.contexts = contexts,
                !.contextText = formatContextForPrompt(contexts),
                !.augmented = ragResult,
                !.request =
                    IF Len(ragContexts) > 0
                    THEN [prompt |-> buildPromptWithHistory(ragResult.prompt, r.history),
                          system |-> DEFAULT_RAG_SYSTEM_PROMPT]
                    ELSE [prompt |-> buildPromptWithHistory(r.query, r.history),
                          system |-> DEFAULT_SYSTEM_PROMPT]]

\* searchRelevantContext's catch block without its return: the error goes on
\* to the caller; generateResponseWithRAG catches it (lines 275-279),
\* SyncController.search does not.
SearchCaught_Rethrows(r, awaited) ==
    IF r.entry = "search"
    THEN [r EXCEPT !.pc = "thrown", !.failed = awaited, !.searchThrew = TRUE]
    ELSE [r EXCEPT
            !.pc = "generate", !.failed = awaited, !.searchThrew = TRUE,
            !.request = [prompt |-> buildPromptWithHistory(r.query, r.history),
                         system |-> DEFAULT_SYSTEM_PROMPT]]

\* searchRelevantContext's catch block (lines 92-95): the call `awaited`
\* rejected, the empty array is returned.
SearchCaught(r, awaited) ==
    SearchReturned([r EXCEPT !.failed = awaited], <<>>)

\* ChatService.generateResponseWithRAG(message, history) up to the first await
\* of searchRelevantContext (lines 246-261, rag.service.ts lines 123, 36-40).
generateResponseWithRAG(message, history) ==
    /\ EventLoopFree
    /\ rag.pc = "idle"
    /\ rag' = [NoRag EXCEPT !.pc = "embed", !.entry = "chat", !.query = message,
                            !.limit = 3, !.category = Null, !.history = history]
    /\ UNCHANGED <<chunker, isSyncing, calls, syncLogs, docs, index, now, writes>>

\* SyncController.search turned away while a sync holds the flag.
search_RejectedWhileSyncing(query, limit, category) ==
    /\ EventLoopFree
    /\ ~isSyncing
    /\ rag.pc = "idle"
    /\ rag' = [NoRag EXCEPT !.pc = "embed", !.entry = "search", !.query = query,
                            !.limit = limit, !.category = category]
    /\ UNCHANGED <<chunker, isSyncing, calls, syncLogs, docs, index, now, writes>>

\* SyncController.search({query, limit, category}) up to the same await
\* (part_003, lines 50-58).
search(query, limit, category) ==
    /\ EventLoopFree
    /\ rag.pc = "idle"
    /\ rag' = [NoRag EXCEPT !.pc = "embed", !.entry = "search", !.query = query,
                            !.limit = limit, !.category = category]
    /\ UNCHANGED <<chunker, isSyncing, calls, syncLogs, docs, index, now, writes>>

\* await this.embeddingService.generateEmbedding(query) (line 40).
EmbedQuery ==
    /\ EventLoopFree
    /\ rag.pc = "embed"
    /\ \E ok \in BOOLEAN :
         rag' = IF ok THEN [rag EXCEPT !.pc = "search"]
                ELSE SearchCaught(rag, "generateEmbedding")
    /\ UNCHANGED <<chunker, isSyncing, calls, syncLogs, docs, index, now, writes>>

\* await this.qdrantService.search(queryEmbedding, limit, filter) (lines
\* 43-59).
SearchIndex ==
    /\ EventLoopFree
    /\ rag.pc = "search"
    /\ \/ \E searchResults \in SearchResults(index, rag.limit, rag.category) :
            rag' = IF Len(searchResults) = 0
                   THEN SearchReturned(rag, <<>>)
                   ELSE [rag EXCEPT !.pc = "fetch", !.searchResults = searchResults]
       \/ rag' = SearchCaught(rag, "search")
    /\ UNCHANGED <<chunker, isSyncing, calls, syncLogs, docs, index, now, writes>>

\* await this.documentRepository.find({ where: { id: In(documentIds) } })
\* and the rest of searchRelevantContext (lines 61-91).
FetchDocuments ==
    /\ EventLoopFree
    /\ rag.pc = "fetch"
    /\ \E ok \in BOOLEAN :
         rag' = IF ok
                THEN SearchReturned(rag, BuildContexts(rag.searchResults, docs))
                ELSE SearchCaught(rag, "find")
    /\ UNCHANGED <<chunker, isSyncing, calls, syncLogs, docs, index, now, writes>>

\* await fetch(this.ollamaUrl, ...) and what follows it (lines 287-322): the
\* response is returned, or the error is thrown.
Generate ==
    /\ EventLoopFree
    /\ rag.pc = "generate"
    /\ \E ok \in BOOLEAN :
         rag' = [rag EXCEPT !.pc = IF ok THEN "returned" ELSE "thrown"]
    /\ UNCHANGED <<chunker, isSyncing, calls, syncLogs, docs, index, now, writes>>

-----------------------------------------------------------------------------

Init ==
    /\ chunker = NoChunker
    /\ isSyncing = FALSE
    /\ calls = [c \in CallIds |-> IdleCall]
    /\ syncLogs = <<>>
    /\ docs = [d \in DocIds |-> NoDoc]
    /\ index = {}
    /\ now = 1
    /\ writes = 0
    /\ rag = NoRag

Next ==
    \/ \E c \in CallIds : fullSync(c)
    \/ \E c \in CallIds : incrementalSync(c)
    \/ \E c \in CallIds : SaveStarted(c)
    \/ \E c \in CallIds : getLastSuccessfulSync(c)
    \/ \E c \in CallIds : FindDocuments(c)
    \/ \E c \in CallIds : deleteByDocumentId(c)
    \/ \E c \in CallIds : generateEmbedding(c)
    \/ \E c \in CallIds : upsertPoints(c)
    \/ \E c \in CallIds : SaveCompleted(c)
    \/ \E c \in CallIds : SaveFailed(c)
    \/ chunkTextEnter
    \/ chunkTextLoop
    \/ \E d \in DocIds, content \in Contents, time \in 1..(MaxWrites + 1) :
          CreateDocument(d, content, Faq, time)
    \/ \E d \in DocIds, content \in Contents, time \in 1..(MaxWrites + 1) :
          UpdateDocument(d, content, Faq, time)
    \/ ClearDocuments

Spec == Init /\ [][Next]_vars

-----------------------------------------------------------------------------
(* The sync orchestrator over documents that are mostly whitespace *)

\* A content of 1500 characters, 1460 of them blanks: with the title it needs
\* chunking, and no window of it has minChunkSize characters once trimmed.
BlankContent  == << <<"x", 40>>, <<" ", 1460>> >>
BlankContents == { << <<"x", 5>> >>, BlankContent }

NextBlank ==
    \/ \E c \in CallIds : fullSync(c)
    \/ \E c \in CallIds : incrementalSync(c)
    \/ \E c \in CallIds : SaveStarted(c)
    \/ \E c \in CallIds : getLastSuccessfulSync(c)
    \/ \E c \in CallIds : FindDocuments(c)
    \/ \E c \in CallIds : deleteByDocumentId(c)
    \/ \E c \in CallIds : generateEmbedding(c)
    \/ \E c \in CallIds : upsertPoints(c)
    \/ \E c \in CallIds : SaveCompleted(c)
    \/ \E c \in CallIds : SaveFailed(c)
    \/ chunkTextEnter
    \/ chunkTextLoop
    \/ \E d \in DocIds, content \in BlankContents, time \in 1..(MaxWrites + 1) :
          CreateDocument(d, content, Faq, time)
    \/ \E d \in DocIds, content \in BlankContents, time \in 1..(MaxWrites + 1) :
          UpdateDocument(d, content, Faq, time)
    \/ ClearDocuments

SpecBlank == Init /\ [][NextBlank]_vars

-----------------------------------------------------------------------------
(* Retrieval next to one fullSync and the writers of table documents *)

NextRag ==
    \/ fullSync(1)
    \/ SaveStarted(1)
    \/ FindDocuments(1)
    \/ generateEmbedding(1)
    \/ upsertPoints(1)
    \/ SaveCompleted(1)
    \/ SaveFailed(1)
    \/ \E d \in DocIds, content \in ShortContents, category \in Categories,
          time \in 1..(MaxWrites + 1) :
          CreateDocument(d, content, category, time)
    \/ ClearDocuments
    \/ \E message \in Queries, history \in Histories :
          generateResponseWithRAG(message, history)
    \/ \E query \in Queries, limit \in Limits, category \in Categories :
          search(query, limit, category)
    \/ EmbedQuery
    \/ SearchIndex
    \/ FetchDocuments
    \/ Generate

SpecRag == Init /\ [][NextRag]_vars

-----------------------------------------------------------------------------
(* chunkText called on its own *)

Spaces(n) == << <<" ", n>> >>
Xs(n)     == << <<"x", n>> >>

ChunkTexts ==
    { <<>>,
      Xs(5),
      Xs(11),
      << <<" ", 5>>, <<"x", 2>>, <<" ", 1>>, <<"x", 3>> >>,
      << <<"x", 8>>, <<" ", 5>>, <<"x", 2>>, <<" ", 1>>, <<"x", 3>> >>,
      << <<" ", 2>>, <<"x", 3>>, <<" ", 1>> >>,
      Xs(1000),
      Xs(1001),
      Xs(1200),
      Xs(3000),
      Spaces(1500),
      << <<"x", 1100>>, <<" ", 150>> >>,
      << <<"x", 700>>, <<".", 1>>, <<" ", 1>>, <<"x", 500>> >>,
      << <<"x", 500>>, <<".", 1>>, <<" ", 1>>, <<"x", 700>> >>,
      << <<"x", 650>>, <<"\n", 2>>, <<"x", 600>> >>,
      << <<"x", 900>>, <<",", 1>>, <<" ", 1>>, <<"x", 300>> >>,
      << <<"x", 800>>, <<" ", 1>>, <<"x", 400>> >>,
      << <<"x", 650>>, <<"?", 1>>, <<" ", 2>>, <<"x", 100>>, <<"\n", 3>>,
         <<"x", 100>>, <<";", 1>>, <<"\n", 1>>, <<"x", 400>> >> }

\* The options a caller passes: none (the defaults), an overlap that does not
\* exceed minChunkSize, small windows, and an overlap as large as the window.
ChunkOptions ==
    { DEFAULT_OPTIONS,
      [maxChunkSize |-> 1000, chunkOverlap |-> 100, minChunkSize |-> 100],
      [maxChunkSize |-> 10, chunkOverlap |-> 2, minChunkSize |-> 3],
      [maxChunkSize |-> 10, chunkOverlap |-> 10, minChunkSize |-> 3] }

InitChunk ==
    /\ \E text \in ChunkTexts, opts \in ChunkOptions :
          chunker = ChunkerCalled(text, opts, 0)
    /\ isSyncing = FALSE
    /\ calls = [c \in CallIds |-> IdleCall]
    /\ syncLogs = <<>>
    /\ docs = [d \in DocIds |-> NoDoc]
    /\ index = {}
    /\ now = 1
    /\ writes = 0
    /\ rag = NoRag

NextChunk ==
    \/ chunkTextEnter
    \/ chunkTextLoop

SpecChunk == InitChunk /\ [][NextChunk]_vars

-----------------------------------------------------------------------------
(* Retrieval on its own, over the stores that syncs and writers leave behind *)

MaxRagDocs == 4    \* documents of the store the retrieval runs against

RagDocIds == 1..MaxRagDocs

\* The row of document d with the given category.
Row(d, category) ==
    [exists |-> TRUE, id |-> d, title |-> Title, content |-> Xs(d),
     category |-> category, updatedAt |-> 1]

\* What has happened to a document: never written; written and indexed by a
\* sync (with or without a category); indexed and then removed from the store
\* (forceSeed); indexed and then written again with its category dropped.
DocKinds == {"absent", "synced", "uncategorised", "removed", "recategorised"}

CurrentRow(d, kind) ==
    CASE kind = "absent"        -> NoDoc
      [] kind = "synced"        -> Row(d, Faq)
      [] kind = "uncategorised" -> Row(d, Null)
      [] kind = "removed"       -> Gone
      [] kind = "recategorised" -> Row(d, Null)

IndexedRow(d, kind) ==
    IF kind = "uncategorised" THEN Row(d, Null) ELSE Row(d, Faq)

InitSearch ==
    /\ \E kind \in [RagDocIds -> DocKinds] :
          /\ docs = [d \in RagDocIds |-> CurrentRow(d, kind[d])]
          /\ index = { DocumentPoint(IndexedRow(d, kind[d])) :
                         d \in { e \in RagDocIds : kind[e] # "absent" } }
    /\ chunker = NoChunker
    /\ isSyncing = FALSE
    /\ calls = [c \in CallIds |-> IdleCall]
    /\ syncLogs = <<>>
    /\ now = 1
    /\ writes = 0
    /\ rag = NoRag

NextSearch ==
    \/ \E message \in Queries, history \in Histories :
          generateResponseWithRAG(message, history)
    \/ \E query \in Queries, limit \in Limits, category \in Categories :
          search(query, limit, category)
    \/ EmbedQuery
    \/ SearchIndex
    \/ FetchDocuments
    \/ Generate

SpecSearch == InitSearch /\ [][NextSearch]_vars

-----------------------------------------------------------------------------
(* Properties of the sync orchestrator *)

\* The invocation c has set isSyncing and has not yet left the method.
InFlight(c) ==
    calls[c].pc \in {"saveStarted", "getLastSync", "find", "delete", "chunking",
                     "embed", "upsert", "saveCompleted", "saveFailed"}

InFlightNext(c) ==
    calls'[c].pc \in {"saveStarted", "getLastSync", "find", "delete", "chunking",
                      "embed", "upsert", "saveCompleted", "saveFailed"}

Rejection(type) ==
    [success |-> FALSE, type |-> type, documentsSynced |-> 0,
     chunksCreated |-> 0, error |-> "Sync already in progress"]

Range(seq) == { seq[i] : i \in 1..Len(seq) }

\* C1: under any interleaving of fullSync and incrementalSync invocations at
\* most one invocation is between setting isSyncing and clearing it.
C1_SingleFlight ==
    Cardinality({ c \in CallIds : InFlight(c) }) <= 1

\* An invocation is embedding while the other one has been turned away.
C1_Witness ==
    \E c, o \in CallIds :
        /\ calls[c].pc = "embed"
        /\ calls[o].pc = "returned"
        /\ calls[o].result = Rejection(calls[o].type)

\* C2: an invocation made while another one is in flight returns success =
\* false with error 'Sync already in progress' and zero counters, and changes
\* nothing else: no sync_logs row, no effect on the documents or the index,
\* the flag still set for the invocation that holds it, which goes on.
C2_RejectedChangesNothing ==
    [][\A c \in CallIds :
         (/\ calls[c].pc = "idle"
          /\ calls'[c].pc # "idle"
          /\ \E o \in CallIds \ {c} : InFlight(o))
         => /\ calls'[c].pc = "returned"
            /\ calls'[c].result \in { Rejection(FULL), Rejection(INCREMENTAL) }
            /\ calls'[c].result.type = calls'[c].type
            /\ isSyncing /\ isSyncing'
            /\ UNCHANGED <<chunker, syncLogs, docs, index, now, writes, rag>>
            /\ \A o \in CallIds \ {c} : calls'[o] = calls[o]
            /\ Cardinality({ o \in CallIds : InFlightNext(o) }) = 1]_vars

\* An incrementalSync has been turned away while a fullSync is in flight.
C2_Witness ==
    \E c, o \in CallIds :
        /\ InFlight(c) /\ calls[c].type = FULL
        /\ calls[o].pc = "returned"
        /\ calls[o].result = Rejection(INCREMENTAL)
        /\ isSyncing

\* C3: every invocation that set isSyncing clears it on every exit path: once
\* no sync run is executing, isSyncing is false.
C3_FlagReleased ==
    (\A c \in CallIds : ~InFlight(c)) => ~isSyncing

\* C5: when the document listing, a delete, an embedding or an upsert fails,
\* the run's sync_logs row is set to FAILED with the error's message and the
\* invocation returns (does not throw) success = false, that message and
\* zero counters.
C5_FailureIsReported ==
    [][\A c \in CallIds :
         (/\ calls[c].pc = "saveFailed"
          /\ calls[c].caught \in {"find", "deleteByDocumentId",
                                  "generateEmbedding", "upsertPoints"}
          /\ calls'[c].pc # "saveFailed")
         => /\ calls'[c].pc = "returned"
            /\ calls'[c].result =
                 [success |-> FALSE, type |-> calls[c].type,
                  documentsSynced |-> 0, chunksCreated |-> 0,
                  error |-> calls[c].errorMessage]
            /\ syncLogs'[calls[c].syncLog.id].status = FAILED
            /\ syncLogs'[calls[c].syncLog.id].errorMessage = calls[c].errorMessage]_vars

\* C6: no incrementalSync pass, failed ones included, ends with a document
\* whose deleteByDocumentId was issued and whose points were not upserted in
\* the same pass.
C6_DeletePairedWithUpsert ==
    [][\A c \in CallIds :
         (calls[c].type = INCREMENTAL /\ InFlight(c) /\ ~InFlightNext(c))
         => Range(calls[c].deleted) \subseteq Range(calls[c].upserted)]_vars

\* The largest completedAt among the COMPLETED rows, epoch zero without one.
Watermark(logs) ==
    LET stamps == { logs[i].completedAt : i \in { j \in 1..Len(logs) :
                                             logs[j].status = COMPLETED } }
    IN  IF stamps = {} THEN 0
        ELSE CHOOSE t \in stamps : \A u \in stamps : u <= t

C8_LogAppendOnly ==
    [][/\ \A i \in 1..Len(syncLogs') :
            i > Len(syncLogs) => syncLogs'[i].status = STARTED
       /\ \A i \in 1..Len(syncLogs) :
            syncLogs[i].status \in {COMPLETED, FAILED} => syncLogs'[i] = syncLogs[i]
       /\ \A c \in CallIds :
            /\ (InFlight(c) /\ ~InFlightNext(c) /\ calls[c].syncLog.id # 0)
                 => syncLogs'[calls[c].syncLog.id].status \in {COMPLETED, FAILED}
            /\ calls[c].syncLog.status = COMPLETED
                 => calls'[c].syncLog.status # FAILED]_vars

\* C9: apart from an incrementalSync between a document's delete and its
\* re-insert, every point of the index has the document_id of a document of
\* the store.
C9_NoOrphanPoints ==
    (\A c \in CallIds :
        ~(calls[c].type = INCREMENTAL /\ calls[c].pc \in {"chunking", "embed", "upsert"}))
    => \A p \in index : docs[p.payload.document_id].exists

\* The points of the index that belong to document d.
PointsOf(points, d) == { p \in points : p.payload.document_id = d }

\* C18: in incrementalSync the deleteByDocumentId call of a selected document
\* has returned before an embedding or upsert call for that document is
\* issued, and the documents are processed one after the other: the delete of
\* the next document is issued only after the upsert of the previous one has
\* returned.
C18_DeleteBeforeIngest ==
    \A c \in CallIds :
       LET call == calls[c]
       IN  call.type = INCREMENTAL
           => /\ call.pc \in {"chunking", "embed", "upsert"}
                 => /\ Len(call.deleted) = call.di
                    /\ call.deleted[call.di] = call.documents[call.di].id
                    /\ Len(call.upserted) = call.di - 1
              /\ call.pc = "delete"
                 => /\ Len(call.deleted) = call.di - 1
                    /\ Len(call.upserted) = call.di - 1
              /\ call.pc \in {"chunking", "embed", "upsert", "delete"}
                 => \A k \in 1..(call.di - 1) :
                       /\ call.deleted[k] = call.documents[k].id
                       /\ call.upserted[k] = call.documents[k].id

\* An incrementalSync has seen the upsert of its first document return and
\* waits for the delete of the second one.
C18_Witness ==
    \E c \in CallIds :
       /\ calls[c].type = INCREMENTAL /\ calls[c].pc = "delete"
       /\ calls[c].di = 2
       /\ calls[c].upserted = <<calls[c].documents[1].id>>

C20_FullSyncDeletesNothing ==
    [][\A c \in CallIds :
         (calls[c].type = FULL /\ InFlight(c) /\ calls'[c] # calls[c])
         => /\ calls'[c].pc # "delete"
            /\ calls'[c].deleted = <<>>
            /\ \A p \in index :
                  \/ p \in index'
                  \/ \E i \in 1..Len(calls[c].points) :
                        /\ calls[c].points[i].id = p.id
                        /\ calls[c].points[i] \in index'
            /\ (calls[c].pc = "find" /\ calls'[c].pc \notin {"find", "saveFailed"})
               => Range(calls'[c].documents)
                    = { docs[d] : d \in { e \in DocIds : docs[e].exists } }
            /\ calls'[c].pc = "saveCompleted"
               => calls'[c].upserted
                    = [k \in 1..Len(calls'[c].documents) |-> calls'[c].documents[k].id]]_vars

\* A fullSync that came after a COMPLETED run has loaded the store and is
\* through its loop, and the index still holds the point of a document that
\* it did not load.
C20_Witness ==
    \E c \in CallIds :
       /\ calls[c].type = FULL /\ calls[c].pc = "saveCompleted"
       /\ Watermark(syncLogs) > 0
       /\ \E p \in index :
             \A k \in 1..Len(calls[c].documents) :
                p.payload.document_id # calls[c].documents[k].id

\* The loop of chunkText is at a window that its body does not move: the
\* body depends on startChar alone, so the same iteration is run for ever.
WindowStays ==
    /\ chunker.pc = "loop"
    /\ chunker.startChar < StrLen(chunker.text)
    /\ LET endChar == WindowEnd(chunker.text, chunker.opts, chunker.startChar)
       IN  /\ endChar - chunker.opts.chunkOverlap = chunker.startChar
           /\ ~LoopBreaks(chunker.text, chunker.opts, endChar)

\* C17: every fullSync or incrementalSync that has taken the flag returns a
\* SyncResult in the end, with its record COMPLETED or FAILED and the flag
\* cleared, whatever the documents hold: no run stays STARTED for ever.
\* Stated for finite runs: a sync that holds the flag with its record STARTED
\* is never inside a chunkText whose loop has stopped moving, from where no
\* settling of an awaited call can take it on.
C17_SyncEventuallyReturns ==
    \A c \in CallIds :
       (/\ InFlight(c) /\ isSyncing
        /\ calls[c].syncLog.id \in 1..Len(syncLogs)
        /\ syncLogs[calls[c].syncLog.id].status = STARTED
        /\ chunker.pc # "idle" /\ chunker.caller = c)
       => ~WindowStays

\* C21: when a sync run fails after some documents were ingested, the points
\* upserted for them stay in the index as they are (no rollback) and the
\* points incrementalSync deleted stay deleted: the failure handler makes no
\* call to the index.
C21_FailureLeavesIndex ==
    [][\A c \in CallIds :
         (/\ InFlight(c) /\ calls'[c] # calls[c]
          /\ calls[c].pc = "saveFailed" \/ calls'[c].pc = "saveFailed")
         => /\ index' = index
            /\ \A k \in 1..Len(calls[c].upserted) :
                 PointsOf(index', calls[c].upserted[k])
                   = {DocumentPoint(calls[c].documents[k])}
            /\ \A k \in 1..Len(calls[c].deleted) :
                 calls[c].deleted[k] \notin Range(calls[c].upserted)
                 => PointsOf(index', calls[c].deleted[k]) = {}]_vars

\* An incrementalSync is in its failure handler after it has ingested its
\* first document and deleted the points of the second one.
C21_Witness ==
    \E c \in CallIds :
       /\ calls[c].type = INCREMENTAL /\ calls[c].pc = "saveFailed"
       /\ Len(calls[c].upserted) = 1 /\ Len(calls[c].deleted) = 2
       /\ PointsOf(index, calls[c].upserted[1]) # {}
       /\ PointsOf(index, calls[c].deleted[2]) = {}

\* A sync invocation is inside syncDocument.
InSyncDocument(c) == calls[c].pc \in {"chunking", "embed", "upsert"}

Stale(d) ==
    docs[d].exists /\ PointsOf(index, d) # {DocumentPoint(docs[d])}

\* The ids of the documents an invocation has loaded.
Selected(call) == { call.documents[k].id : k \in 1..Len(call.documents) }

\* C27: no write to a document is lost by the watermark: a document written
\* at any time, also while a sync is in flight that has read it already, is
\* selected by the next incrementalSync that starts after the write.  At the
\* selection of an incrementalSync, every document whose latest content is
\* not in the index is therefore among the documents selected.
C27_NoUpdateLost ==
    [][\A c \in CallIds :
         (/\ calls[c].type = INCREMENTAL /\ calls[c].pc = "find"
          /\ calls'[c].pc \notin {"find", "saveFailed"})
         => \A d \in DocIds : Stale(d) => d \in Selected(calls'[c])]_vars

\* C28: a failed run does not advance the watermark: the documents selected
\* by an incrementalSync that ends FAILED, those whose points were deleted
\* and not inserted again included, are above the watermark when it ends,
\* the watermark is what the next incrementalSync selects by, and only a run
\* that is saved COMPLETED moves it.
C28_FailedRunKeepsWatermark ==
    [][/\ \A c \in CallIds :
            /\ (calls[c].pc = "saveFailed" /\ calls'[c] # calls[c])
               => /\ Watermark(syncLogs') = Watermark(syncLogs)
                  /\ calls[c].type = INCREMENTAL
                     => \A d \in Selected(calls[c]) :
                           (docs'[d].exists
                            /\ docs'[d].updatedAt >= calls[c].documents[
                                 CHOOSE k \in 1..Len(calls[c].documents) :
                                    calls[c].documents[k].id = d].updatedAt)
                           => docs'[d].updatedAt > Watermark(syncLogs')
            /\ (calls[c].pc = "getLastSync" /\ calls'[c].pc = "find")
               => calls'[c].sinceDate = Watermark(syncLogs)
            /\ (/\ calls[c].type = INCREMENTAL /\ calls[c].pc = "find"
                /\ calls'[c].pc \notin {"find", "saveFailed"})
               => Selected(calls'[c])
                    = { d \in DocIds : docs[d].exists
                                       /\ docs[d].updatedAt > calls[c].sinceDate }
       /\ Watermark(syncLogs') # Watermark(syncLogs)
          => \E c \in CallIds : calls[c].pc = "saveCompleted"
                                /\ calls'[c].pc = "returned"]_vars

\* An incrementalSync that ingested its first document and deleted the
\* points of the second one has ended FAILED, and the next incrementalSync
\* has selected both documents again.
C28_Witness ==
    /\ calls[1].type = INCREMENTAL /\ calls[1].pc = "returned"
    /\ ~calls[1].result.success
    /\ Len(syncLogs) = 2 /\ syncLogs[1].status = FAILED
    /\ calls[2].type = INCREMENTAL /\ calls[2].pc = "delete"
    /\ Len(calls[2].documents) = 2
    /\ PointsOf(index, calls[2].documents[1].id) # {}
    /\ PointsOf(index, calls[2].documents[2].id) = {}

\* Whether no window of a text has minChunkSize characters once trimmed: a
\* trimmed window is a part of the trimmed text.
MostlyBlank(text) == StrLen(Trim(text)) < DEFAULT_OPTIONS.minChunkSize

-----------------------------------------------------------------------------
(* Properties of the chunker *)

\* C4: under the default options chunkText terminates, for every text longer
\* than maxChunkSize too: the window that reaches the end of the text is the
\* last one processed, and an iteration that is followed by another one has
\* moved the window (the body is a function of startChar alone, so a window
\* that stays where it was is processed for ever).
C4_ChunkTextTerminates ==
    [][(/\ chunker.pc = "loop" /\ chunker'.pc \in {"loop", "done"}
        /\ chunker.opts = DEFAULT_OPTIONS
        /\ chunker.startChar < StrLen(chunker.text))
       => /\ WindowEnd(chunker.text, chunker.opts, chunker.startChar)
                 = StrLen(chunker.text)
             => chunker'.pc = "done"
          /\ chunker'.pc = "loop"
             => chunker'.startChar # chunker.startChar]_vars

\* The characters of text between its first and its last character that is
\* not whitespace.
Trimmed(text) ==
    LET s     == Expand(text)
        solid == { i \in 1..Len(s) : ~IsSpace(s[i]) }
    IN  IF solid = {} THEN <<>>
        ELSE SubSeq(s, CHOOSE i \in solid : \A j \in solid : i <= j,
                       CHOOSE i \in solid : \A j \in solid : i >= j)

\* chunkText has returned the short-text chunk.
ShortTextReturned ==
    chunker.pc = "done" /\ StrLen(chunker.text) <= chunker.opts.maxChunkSize

\* C12: for every text at most maxChunkSize long, the empty one included,
\* chunkText returns exactly one chunk: index 0, startChar 0, endChar the
\* length of the text, text the trimmed input, whatever minChunkSize is.
C12_ShortTextOneChunk ==
    ShortTextReturned
    => /\ Len(chunker.chunks) = 1
       /\ chunker.chunks[1].index = 0
       /\ chunker.chunks[1].startChar = 0
       /\ chunker.chunks[1].endChar = Len(Expand(chunker.text))
       /\ Expand(chunker.chunks[1].text) = Trimmed(chunker.text)

\* A short text with whitespace around fewer characters than minChunkSize has
\* been returned as one chunk.
C12_Witness ==
    /\ ShortTextReturned
    /\ Len(chunker.chunks) = 1
    /\ chunker.text # <<>> /\ IsSpace(chunker.text[1][1])
    /\ StrLen(chunker.chunks[1].text) \in 1..(chunker.opts.minChunkSize - 1)

\* C13: every chunk chunkText emits has trimmed length at least minChunkSize,
\* except when the text is at most maxChunkSize long and the short-text chunk
\* is the only chunk.
C13_ChunksReachMinSize ==
    \A k \in 1..(IF chunker.pc \in {"loop", "done"} THEN Len(chunker.chunks) ELSE 0) :
       \/ Len(Trimmed(chunker.chunks[k].text)) >= chunker.opts.minChunkSize
       \/ /\ StrLen(chunker.text) <= chunker.opts.maxChunkSize
          /\ Len(chunker.chunks) = 1

\* chunkText has returned from the loop, the first window held fewer
\* characters than minChunkSize and was skipped, a later one was emitted.
C13_Witness ==
    /\ chunker.pc = "done"
    /\ StrLen(chunker.text) > chunker.opts.maxChunkSize
    /\ Len(chunker.chunks) >= 1
    /\ chunker.chunks[1].startChar > 0
    /\ Trimmed(Slice(chunker.text, 0, chunker.chunks[1].startChar)) # <<>>

\* The offsets of text that lie in the span of no chunk and hold a character
\* that is not whitespace.
Uncovered(text, chunks) ==
    LET s == Expand(text)
    IN  { o \in 0..(Len(s) - 1) :
            /\ ~IsSpace(s[o + 1])
            /\ \A k \in 1..Len(chunks) :
                 ~(chunks[k].startChar <= o /\ o < chunks[k].endChar) }

\* C14: the spans [startChar, endChar) of the chunks chunkText returns cover
\* every character of the text that is not whitespace, those of the windows
\* skipped as too small and those of the tail included.
C14_SpansCoverText ==
    chunker.pc = "done" => Uncovered(chunker.text, chunker.chunks) = {}

\* C24: the chunks of chunkText carry the indices 0, 1, ..., n-1 in the
\* order they are pushed, without gap or repeat: a window skipped because its
\* trimmed text is shorter than minChunkSize takes no index; the startChar of
\* the chunks does not decrease.
C24_IndicesAreSequential ==
    chunker.pc \in {"loop", "done"}
    => /\ \A k \in 1..Len(chunker.chunks) : chunker.chunks[k].index = k - 1
       /\ chunker.pc = "loop" => chunker.chunkIndex = Len(chunker.chunks)
       /\ \A k \in 1..(Len(chunker.chunks) - 1) :
             chunker.chunks[k].startChar <= chunker.chunks[k + 1].startChar

\* chunkText has returned two chunks, between which a window that held
\* characters was skipped.
C24_Witness ==
    /\ chunker.pc = "done"
    /\ Len(chunker.chunks) = 2
    /\ chunker.chunks[2].index = 1
    /\ chunker.chunks[2].startChar
         > chunker.chunks[1].endChar - chunker.opts.chunkOverlap
    /\ Trimmed(Slice(chunker.text, chunker.chunks[1].endChar,
                     chunker.chunks[2].startChar)) # <<>>

\* C25: chunkText guards against windows that do not progress, for every
\* choice of options: from one iteration of the sliding loop to the next the
\* window start strictly increases (or the loop is left), also when
\* chunkOverlap is at least maxChunkSize or more than the distance from the
\* window start to the break point chosen.
C25_WindowStartIncreases ==
    [][(/\ chunker.pc = "loop" /\ chunker'.pc = "loop"
        /\ chunker.startChar < StrLen(chunker.text))
       => chunker'.startChar > chunker.startChar]_vars

-----------------------------------------------------------------------------
(* Properties of the retrieval engine *)

\* C10: searchRelevantContext never throws; when its embedding call, its
\* vector search or its document fetch fails it returns the empty sequence,
\* getAugmentedPrompt then returns the unmodified query, and
\* generateResponseWithRAG issues the generation request with the plain prompt
\* (the message with the history) and the default system prompt.
C10_RetrievalFailureFallsBack ==
    /\ ~rag.searchThrew
    /\ rag.failed # "none"
       => /\ rag.contexts = <<>>
          /\ rag.pc # "thrown" \/ rag.entry = "chat"
          /\ rag.entry = "chat"
             => /\ rag.augmented = [prompt |-> rag.query, contexts |-> <<>>]
                /\ rag.pc \in {"generate", "returned", "thrown"}
                /\ rag.request =
                     [prompt |-> buildPromptWithHistory(rag.query, rag.history),
                      system |-> DEFAULT_SYSTEM_PROMPT]

\* The document fetch of a generateResponseWithRAG with a history has failed
\* after the index returned a hit, and the generation request has been
\* answered.
C10_Witness ==
    /\ rag.entry = "chat" /\ rag.failed = "find"
    /\ rag.history # <<>> /\ Len(rag.searchResults) > 0
    /\ rag.pc = "returned"

\* generateResponseWithRAG has got the result of getAugmentedPrompt.
Augmented ==
    rag.entry = "chat" /\ rag.pc \in {"generate", "returned", "thrown"}

\* C11: getAugmentedPrompt(query) returns {prompt: query, contexts: []}
\* exactly when searchRelevantContext yields no context; otherwise it returns
\* the contexts (at most 3, not empty) and the prompt '<context>', the
\* formatted contexts, '</context>', a blank line, 'Question: ' and the query.
\* The returned contexts are empty iff the returned prompt is the query.
C11_AugmentedPrompt ==
    Augmented
    => /\ rag.contexts = <<>>
          <=> rag.augmented = [prompt |-> rag.query, contexts |-> <<>>]
       /\ rag.contexts # <<>>
          => /\ rag.augmented.contexts = rag.contexts
             /\ Len(rag.augmented.contexts) \in 1..3
             /\ Expand(rag.augmented.prompt)
                  = <<"<", "c", "o", "n", "t", "e", "x", "t", ">", "\n">>
                    \o Expand(rag.contextText)
                    \o <<"\n", "<", "/", "c", "o", "n", "t", "e", "x", "t", ">",
                         "\n", "\n", "Q", "u", "e", "s", "t", "i", "o", "n",
                         ":", " ">>
                    \o Expand(rag.query)
       /\ rag.augmented.contexts = <<>> <=> rag.augmented.prompt = rag.query

\* Four points are in the index and getAugmentedPrompt has returned the
\* three contexts the search was limited to.
C11_Witness ==
    /\ Augmented
    /\ Cardinality(index) = 4
    /\ Len(rag.augmented.contexts) = 3
    /\ rag.augmented.prompt # rag.query

\* searchRelevantContext has returned after the document fetch.
Joined ==
    /\ rag.pc \in {"generate", "returned", "thrown"}
    /\ rag.failed = "none"
    /\ rag.searchResults # <<>>

\* The hits whose document is in the store, as positions of the hit list.
FoundHits ==
    { i \in 1..Len(rag.searchResults) :
        docs[rag.searchResults[i].payload.document_id].exists }

\* C15: searchRelevantContext returns one context per hit whose document_id
\* is found in the store, in the order and with the score of the hits; the
\* hits whose document is gone are dropped without an error: the result is
\* not longer than the hit list and not re-ranked.
C15_ContextsFollowHits ==
    Joined
    => /\ ~rag.searchThrew
       /\ rag.entry = "search" => rag.pc = "returned"
       /\ Len(rag.contexts) = Cardinality(FoundHits)
       /\ Len(rag.contexts) <= Len(rag.searchResults)
       /\ \A k \in 1..Len(rag.contexts) :
            \E i \in FoundHits :
               /\ Cardinality({ j \in FoundHits : j < i }) = k - 1
               /\ rag.contexts[k].documentId = rag.searchResults[i].payload.document_id
               /\ rag.contexts[k].score = rag.searchResults[i].score
               /\ rag.contexts[k].title
                    = docs[rag.searchResults[i].payload.document_id].title
       /\ \A k \in 1..(Len(rag.contexts) - 1) :
            rag.contexts[k].score > rag.contexts[k + 1].score

\* The search returned three hits, the document of the first one is gone and
\* the two others have become the contexts.
C15_Witness ==
    /\ Joined /\ rag.entry = "search" /\ rag.pc = "returned"
    /\ Len(rag.searchResults) = 3
    /\ 1 \notin FoundHits
    /\ Len(rag.contexts) = 2

\* The entry of context ctx numbered i, character by character.
FormattedEntry(ctx, i) ==
    <<"[", Digit(i), "]", " ">> \o Expand(ctx.title)
    \o (IF ctx.category # Null /\ ctx.category # <<>>
        THEN <<" ", "(">> \o Expand(ctx.category) \o <<")">>
        ELSE <<>>)
    \o <<"\n">> \o Expand(ctx.content)

RECURSIVE FormattedFrom(_, _)
FormattedFrom(contexts, i) ==
    IF i > Len(contexts) THEN <<>>
    ELSE IF i = Len(contexts) THEN FormattedEntry(contexts[i], i)
    ELSE FormattedEntry(contexts[i], i)
         \o <<"\n", "\n", "-", "-", "-", "\n", "\n">>
         \o FormattedFrom(contexts, i + 1)

\* C16: formatContextForPrompt numbers the contexts from 1 in input order,
\* writes '[i] Title (category)' with a category and '[i] Title' without,
\* puts the content on the next line, joins the entries with a blank line,
\* '---' and a blank line, and returns the empty string for no context.
C16_FormattedContexts ==
    Augmented => Expand(rag.contextText) = FormattedFrom(rag.contexts, 1)

\* Contexts with and without a category have been formatted.
C16_Witness ==
    /\ Augmented
    /\ Len(rag.contexts) = 3
    /\ \E i, j \in 1..3 : /\ rag.contexts[i].category = Null
                          /\ rag.contexts[j].category = Faq

\* A retrieval can be issued: the entry points of the retrieval do not look
\* at the flag.
RetrievalCanGoOn ==
    (rag.pc = "idle" /\ EventLoopFree)
    => /\ ENABLED (\E query \in Queries, limit \in Limits, category \in Categories :
                      search(query, limit, category))
       /\ ENABLED (\E message \in Queries, history \in Histories :
                      generateResponseWithRAG(message, history))

\* C26: searchRelevantContext and getAugmentedPrompt are never turned away or
\* held back by the single-flight flag and interleave with a sync in flight
\* at any await; they read the index and the store and change neither the
\* index, the store, the sync log nor the flag.
C26_RetrievalBesideSync ==
    /\ []RetrievalCanGoOn
    /\ [][rag' # rag
          => UNCHANGED <<index, docs, syncLogs, isSyncing, calls, chunker>>]_vars

\* A search that was issued and served while a fullSync held the flag has
\* returned contexts, the sync still being under way.
C26_Witness ==
    /\ rag.pc = "returned" /\ rag.contexts # <<>>
    /\ isSyncing /\ InFlight(1)
    /\ calls[1].pc \in {"embed", "upsert"}
    /\ Len(calls[1].upserted) >= 1

\* searchRelevantContext has returned contexts for a call with a category
\* filter.
Filtered == Joined /\ Truthy(rag.category)

\* C30 as stated: with a category filter, every returned context has the
\* category of the filter, also when the category of a document was changed
\* in the store after its points were written.
C30_ContextsHaveFilterCategory ==
    Filtered
    => \A k \in 1..Len(rag.contexts) : rag.contexts[k].category = rag.category

\* C30: with a category filter, every hit has the category of the filter in
\* its payload, that is the category the document had when its points were
\* written; the category of a context is the one of the row of the store as
\* it is at the time of the search (null for none), so a context has the
\* category of the filter when the row still has the category it was indexed
\* with.
C30_HitsHaveFilterCategory ==
    Filtered
    => /\ \A i \in 1..Len(rag.searchResults) :
            rag.searchResults[i].payload.category = rag.category
       /\ \A k \in 1..Len(rag.contexts) :
            LET row == docs[rag.contexts[k].documentId]
            IN  /\ row.exists
                /\ rag.contexts[k].category
                     = IF Truthy(row.category) THEN row.category ELSE Null
                /\ \E i \in FoundHits :
                      /\ rag.searchResults[i].payload.document_id = row.id
                      /\ row.category = rag.searchResults[i].payload.category
                         => rag.contexts[k].category = rag.category

\* A search filtered by category has returned a context without a category:
\* the document was indexed with the category and lost it in the store
\* afterwards.  Another context of the same search has the category.
C30_Witness ==
    /\ Filtered /\ rag.entry = "search" /\ rag.pc = "returned"
    /\ \E k \in 1..Len(rag.contexts) : rag.contexts[k].category = Null
    /\ \E k \in 1..Len(rag.contexts) : rag.contexts[k].category = rag.category

=============================================================================
